---- MODULE Spec2Model ----
(***************************************************************************)
(* A model of the scripts of linux-notes:                                  *)
(*   scripts/count_words.py : clean_word, read_words_from_file,            *)
(*                            k_most_frequent_words_minheap                *)
(*   scripts/dinosaur.py    : DinosaurSpeedCalculator.load_dataset1/2,     *)
(*                            create_dinosaur_objects,                     *)
(*                            get_bipedal_dinosaurs_by_speed               *)
(*                                                                         *)
(* Tokens (words) are modelled by their rank in string order: token 1 is   *)
(* the smallest string, token 2 the next one, and so on, so that the       *)
(* comparison of (freq, word) tuples is Python's lexicographic one.        *)
(***************************************************************************)
EXTENDS Integers, Sequences, FiniteSets, TLC

\* ------------------------------------------------------------------ bounds
NumTokens == 4      \* distinct words a frequency mapping may hold
MaxCount == 2       \* largest occurrence count of a word
MaxK == 4           \* largest k tried (the smallest is -1)
MaxLineLen == 3     \* characters of a line of the text file
MaxLines == 2       \* lines read from the text file
MaxRows == 2        \* data rows read from one CSV file

VARIABLES
    \* k_most_frequent_words_minheap
    word_freq,      \* the frequency mapping: token -> count
    k,              \* the parameter k
    seen,           \* the keys word_freq.items() has yielded so far
    word,           \* the loop variable word (0 before the first iteration)
    min_heap,       \* the list min_heap, of <<freq, word>> tuples
    result,         \* the list result, of <<word, freq>> tuples
    pc,             \* position in the function
    calls,          \* number of the call in progress (1 or 2)
    first_result,   \* what the first call returned
    \* read_words_from_file
    rpc,            \* position in the function
    words,          \* the list words
    nlines,         \* number of lines read so far
    ret,            \* the value returned (a sequence of tokens)
    out,            \* the messages printed
    exc,            \* the exception raised inside the try ("none": none)
    propagated,     \* TRUE when an exception left the function
    \* DinosaurSpeedCalculator
    dpc,            \* position in the loader
    dataset,        \* the dataset being loaded, 1 or 2 (0: none)
    fieldnames,     \* the header of the file being loaded
    dinosaurs,      \* self.dinosaurs: name -> partial record
    nrows,          \* number of rows read from the file being loaded
    row,            \* the loop variable row: the cells of the row just read
    warnings,       \* number of warnings printed
    raised,         \* TRUE when the loader raised
    ranked,         \* what get_bipedal_dinosaurs_by_speed returned
    speed_failed    \* TRUE when "Error calculating speeds" was printed

topkVars == <<word_freq, k, seen, word, min_heap, result, pc, calls, first_result>>
readVars == <<rpc, words, nlines, ret, out, exc, propagated>>
dinoVars == <<dpc, dataset, fieldnames, dinosaurs, nrows, row, warnings, raised,
             ranked, speed_failed>>
vars == <<topkVars, readVars, dinoVars>>

\* ------------------------------------------------------------------ helpers
Range(s) == {s[j] : j \in 1..Len(s)}

Tokens == 1..NumTokens

\* word_freq is a Counter: every key has a count >= 1
FreqMaps == UNION {[D -> 1..MaxCount] : D \in SUBSET Tokens}

KValues == (0 - 1)..MaxK

\* ------------------------------------------------------------------ heapq
\* (freq, word) < (freq2, word2), Python's tuple comparison
TupleLessFreqOnly(a, b) == a[1] < b[1]

TupleLess(a, b) == a[1] < b[1] \/ (a[1] = b[1] /\ a[2] < b[2])

\* heapq._siftdown, with heap[pos] held in newitem; positions are 0-based
RECURSIVE siftdown(_, _, _, _)
siftdown(heap, startpos, pos, newitem) ==
    IF pos > startpos
    THEN LET parentpos == (pos - 1) \div 2
             parent == heap[parentpos + 1]
         IN  IF TupleLess(newitem, parent)
             THEN siftdown([heap EXCEPT ![pos + 1] = parent], startpos, parentpos, newitem)
             ELSE [heap EXCEPT ![pos + 1] = newitem]
    ELSE [heap EXCEPT ![pos + 1] = newitem]

\* heapq._siftup: move the smaller child up until a leaf, then sift newitem down
RECURSIVE siftup(_, _, _, _)
siftup(heap, startpos, pos, newitem) ==
    LET endpos == Len(heap)
        childpos == 2 * pos + 1
        rightpos == childpos + 1
        child == IF rightpos < endpos /\ ~TupleLess(heap[childpos + 1], heap[rightpos + 1])
                 THEN rightpos ELSE childpos
    IN  IF childpos < endpos
        THEN siftup([heap EXCEPT ![pos + 1] = heap[child + 1]], startpos, child, newitem)
        ELSE siftdown([heap EXCEPT ![pos + 1] = newitem], startpos, pos, newitem)

heappushNoSift(heap, item) == Append(heap, item)

\* heapq.heappush(heap, item)
heappush(heap, item) == siftdown(Append(heap, item), 0, Len(heap), item)

heapreplaceLast(heap, item) ==
    siftdown([heap EXCEPT ![Len(heap)] = item], 0, Len(heap) - 1, item)

\* heapq.heapreplace(heap, item): the heap after heap[0] is replaced by item
heapreplace(heap, item) == siftup([heap EXCEPT ![1] = item], 0, 0, item)

\* heapq.heappop(heap): the heap after the pop (the item returned is heap[0])
heappop(heap) ==
    LET lastelt == heap[Len(heap)]
        rest == SubSeq(heap, 1, Len(heap) - 1)
    IN  IF rest # <<>> THEN siftup([rest EXCEPT ![1] = lastelt], 0, 0, lastelt)
        ELSE rest

\* result.reverse()
ReverseNot(s) == s

Reverse(s) == [j \in 1..Len(s) |-> s[Len(s) + 1 - j]]

\* ---------------------------------------- k_most_frequent_words_minheap
\* line 69: if k <= 0
KNegative(kk) == kk < 0

KNotPositive(kk) == kk <= 0

\* line 75: len(min_heap) < k
HeapNotFullOffByOne(heap, kk) == Len(heap) <= kk

HeapNotFull(heap, kk) == Len(heap) < kk

\* line 78: freq > min_heap[0][0]
EvictsNever(freq, heap) == FALSE

EvictsOnTie(freq, heap) == freq >= heap[1][1]

Evicts(freq, heap) == freq > heap[1][1]

TopKIdle ==
    /\ UNCHANGED readVars
    /\ UNCHANGED dinoVars

\* lines 69-72: the guard on k, and min_heap = []
Enter ==
    /\ pc = "start"
    /\ IF KNotPositive(k)
       THEN /\ result' = <<>>
            /\ pc' = "done"
            /\ UNCHANGED min_heap
       ELSE /\ min_heap' = <<>>
            /\ pc' = "loop"
            /\ UNCHANGED result
    /\ UNCHANGED <<word_freq, k, seen, word, calls, first_result>>
    /\ TopKIdle

\* lines 74-81: one iteration of the for loop; items() yields the pairs in
\* an arbitrary order, each once
LoopStep ==
    /\ pc = "loop"
    /\ \E w \in DOMAIN word_freq \ seen :
          LET freq == word_freq[w]
          IN  /\ word' = w
              /\ seen' = seen \cup {w}
              /\ IF HeapNotFull(min_heap, k)
                 THEN min_heap' = heappush(min_heap, <<freq, w>>)
                 ELSE IF Evicts(freq, min_heap)
                      THEN min_heap' = heapreplace(min_heap, <<freq, w>>)
                      ELSE min_heap' = min_heap
    /\ UNCHANGED <<word_freq, k, result, pc, calls, first_result>>
    /\ TopKIdle

\* lines 74, 84: the for loop is exhausted; result = []
LoopExit ==
    /\ pc = "loop"
    /\ seen = DOMAIN word_freq
    /\ result' = <<>>
    /\ pc' = "drain"
    /\ UNCHANGED <<word_freq, k, seen, word, min_heap, calls, first_result>>
    /\ TopKIdle

\* lines 85-87: one iteration of the while loop
DrainStep ==
    /\ pc = "drain"
    /\ min_heap # <<>>
    /\ result' = Append(result, <<min_heap[1][2], min_heap[1][1]>>)
    /\ min_heap' = heappop(min_heap)
    /\ UNCHANGED <<word_freq, k, seen, word, pc, calls, first_result>>
    /\ TopKIdle

\* lines 90-91: result.reverse(); return result
Return ==
    /\ pc = "drain"
    /\ min_heap = <<>>
    /\ result' = Reverse(result)
    /\ pc' = "done"
    /\ UNCHANGED <<word_freq, k, seen, word, min_heap, calls, first_result>>
    /\ TopKIdle

\* the function is called a second time on the same word_freq and k; the
\* mapping may yield its pairs in another order (a new iterator)
CallAgain ==
    /\ pc = "done"
    /\ calls = 1
    /\ calls' = 2
    /\ first_result' = result
    /\ seen' = {}
    /\ word' = 0
    /\ min_heap' = <<>>
    /\ result' = <<>>
    /\ pc' = "start"
    /\ UNCHANGED <<word_freq, k>>
    /\ TopKIdle

\* ------------------------------------------------ claims about the top-k
Counts(res) == [j \in 1..Len(res) |-> res[j][2]]

ResultTokens(res) == {res[j][1] : j \in 1..Len(res)}

SortedByCountDesc(res) == \A j \in 1..(Len(res) - 1) : res[j][2] >= res[j + 1][2]

Entries(F) == {<<w, F[w]>> : w \in DOMAIN F}

\* the smallest count among the candidates, whatever their arrangement
MinCount(heap) == CHOOSE c \in {heap[j][1] : j \in 1..Len(heap)} :
                      \A j \in 1..Len(heap) : c <= heap[j][1]

\* the smallest (freq, word) tuple among the candidates
MinTuple(heap) == CHOOSE t \in Range(heap) :
                      \A u \in Range(heap) :
                          t[1] < u[1] \/ (t[1] = u[1] /\ t[2] <= u[2])

\* the step just taken is an iteration of the for loop
IsLoopStep == pc = "loop" /\ pc' = "loop" /\ seen' # seen

\* number of pairs the for loop has consumed
Consumed == Cardinality(seen)

\* C1: for k >= 1 and every iteration order, every count in the result is
\* >= the count of every token of F that the result leaves out.
C1_Dominates ==
    (pc = "done" /\ k >= 1) =>
        \A j \in 1..Len(result) :
            \A w \in DOMAIN word_freq \ ResultTokens(result) :
                result[j][2] >= word_freq[w]

\* a call with k >= 1 has returned, leaving out a token whose count is below
\* every count returned and another whose count ties the smallest returned
C1_Witness ==
    /\ pc = "done" /\ k >= 1 /\ result # <<>>
    /\ \E w \in DOMAIN word_freq \ ResultTokens(result) :
           word_freq[w] < result[Len(result)][2]
    /\ \E w \in DOMAIN word_freq \ ResultTokens(result) :
           word_freq[w] = result[Len(result)][2]

\* C2: for k >= |F| the result holds every entry of F exactly once, sorted by
\* count descending, and during the loop the heap holds every pair consumed
\* so far (none is evicted or discarded).
C2_AllReturned ==
    (k >= Cardinality(DOMAIN word_freq) /\ k >= 1) =>
        /\ pc = "loop" =>
              /\ Len(min_heap) = Consumed
              /\ Range(min_heap) = {<<word_freq[w], w>> : w \in seen}
        /\ pc = "done" =>
              /\ Len(result) = Cardinality(DOMAIN word_freq)
              /\ Range(result) = Entries(word_freq)
              /\ SortedByCountDesc(result)

\* a call with k >= |F| has returned three entries, the last one consumed
\* first in the result
C2_Witness ==
    /\ pc = "done" /\ k >= Cardinality(DOMAIN word_freq)
    /\ Len(result) >= 3
    /\ result[1][2] > result[2][2] /\ result[2][2] = result[3][2]
    /\ word = result[1][1]

\* C3: for k <= 0 the call returns the empty sequence without entering the
\* loop (no pair is consumed, no heap is built); for the empty mapping and
\* any k it returns the empty sequence too.
C3_EmptyForBadK ==
    /\ k <= 0 =>
          /\ pc \in {"start", "done"}
          /\ seen = {} /\ word = 0
          /\ min_heap = <<>>
          /\ pc = "done" => result = <<>>
    /\ (DOMAIN word_freq = {} /\ pc = "done") => result = <<>>

\* a call with k <= 0 on a non-empty mapping has returned
C3_Witness ==
    /\ pc = "done" /\ k <= 0 /\ DOMAIN word_freq # {} /\ result = <<>>

\* a call with k >= 1 on the empty mapping has returned
C3_WitnessEmptyMapping ==
    /\ pc = "done" /\ k >= 1 /\ DOMAIN word_freq = {} /\ result = <<>>

\* C4 as stated: the result has length <= k, is sorted by count descending,
\* holds only entries of F and no token twice.
C4_AsStated ==
    pc = "done" =>
        /\ Len(result) <= k
        /\ SortedByCountDesc(result)
        /\ Range(result) \subseteq Entries(word_freq)
        /\ Cardinality(ResultTokens(result)) = Len(result)

\* C4 (amended): the result has length <= max(k, 0), is sorted by count
\* descending, holds only entries of F and no token twice.
C4_ResultShape ==
    pc = "done" =>
        /\ Len(result) <= (IF k > 0 THEN k ELSE 0)
        /\ SortedByCountDesc(result)
        /\ Range(result) \subseteq Entries(word_freq)
        /\ Cardinality(ResultTokens(result)) = Len(result)

\* a call whose mapping has more than k entries has returned k pairs, two of
\* them with different counts
C4_Witness ==
    /\ pc = "done" /\ k >= 2 /\ Len(result) = k
    /\ Cardinality(DOMAIN word_freq) > k
    /\ result[1][2] > result[k][2]

\* C5: two calls on the same F and k return the same sequence (hence the
\* same multiset) of counts, whatever order each call iterates F in.
C5_SameCounts ==
    (pc = "done" /\ calls = 2) => Counts(result) = Counts(first_result)

\* the second call has returned other tokens than the first, having iterated
\* a mapping with more than k entries
C5_Witness ==
    /\ pc = "done" /\ calls = 2 /\ k >= 1
    /\ Cardinality(DOMAIN word_freq) > k
    /\ ResultTokens(result) # ResultTokens(first_result)

\* C6: in the loop, once the heap holds k pairs, a pair whose count is <= the
\* minimum count of the heap leaves the heap unchanged; a candidate leaves
\* the heap only when the pair consumed has a count strictly greater than
\* the minimum count, and the candidate that leaves has the minimum count.
C6_TiesNeverEvict ==
    [][IsLoopStep =>
        LET freq == word_freq[word']
            gone == Range(min_heap) \ Range(min_heap')
        IN  /\ (Len(min_heap) = k /\ freq <= MinCount(min_heap)) => min_heap' = min_heap
            /\ gone # {} =>
                  /\ freq > MinCount(min_heap)
                  /\ Cardinality(gone) = 1
                  /\ \A t \in gone : t[1] = MinCount(min_heap)
                  /\ <<freq, word'>> \in Range(min_heap')
      ]_vars

\* the pair just consumed tied the minimum count of a full heap and is not
\* among the candidates
C6_WitnessTie ==
    /\ pc = "loop" /\ Len(min_heap) = k /\ Consumed > k
    /\ word_freq[word] = MinCount(min_heap)
    /\ \A j \in 1..Len(min_heap) : min_heap[j][2] # word

\* the pair just consumed is among the candidates of a full heap and an
\* earlier pair is not: it was evicted
C6_WitnessEvict ==
    /\ pc = "loop" /\ Consumed > k /\ Len(min_heap) = k
    /\ \E j \in 1..Len(min_heap) : min_heap[j][2] = word

\* C9: in the loop (k >= 1) the heap holds at most k pairs, exactly
\* min(k, pairs consumed), its size never decreases, and min_heap[0] carries
\* the minimum count among the candidates.
C9_HeapInv ==
    /\ [](pc = "loop" =>
            /\ k >= 1
            /\ Len(min_heap) <= k
            /\ Len(min_heap) = (IF Consumed < k THEN Consumed ELSE k)
            /\ min_heap # <<>> => min_heap[1][1] = MinCount(min_heap))
    /\ [][IsLoopStep => Len(min_heap') >= Len(min_heap)]_vars

\* the loop holds a full heap of three candidates, the last pair consumed
\* having replaced the minimum and moved below the root
C9_Witness ==
    /\ pc = "loop" /\ k = 3 /\ Len(min_heap) = 3 /\ Consumed > 3
    /\ \E j \in 2..3 : min_heap[j][2] = word

\* C10: the result is sorted descending by the pair (count, token), so tokens
\* with equal counts appear in descending token order; and an eviction
\* removes the smallest (count, token) candidate: among those tied at the
\* minimum count, the one with the smallest token.
C10_OrderByTuple ==
    /\ [](pc = "done" =>
            \A j \in 1..(Len(result) - 1) :
                \/ result[j][2] > result[j + 1][2]
                \/ result[j][2] = result[j + 1][2] /\ result[j][1] > result[j + 1][1])
    /\ [][(IsLoopStep /\ Range(min_heap) # Range(min_heap')) =>
            (Len(min_heap) = k =>
                Range(min_heap) \ Range(min_heap') = {MinTuple(min_heap)})
         ]_vars

\* a call has returned three pairs of equal count, after evicting a candidate
C10_Witness ==
    /\ pc = "done" /\ Len(result) = 3 /\ k = 3
    /\ result[1][2] = result[3][2]
    /\ Cardinality(DOMAIN word_freq) > 3


\* ------------------------------------------------- read_words_from_file
\* the characters of the file: a lower-case letter, an upper-case letter, a
\* character that is no ASCII letter, and white space
Chars == {"a", "B", "1", " "}

RECURSIVE SeqsUpTo(_, _)
SeqsUpTo(S, n) ==
    IF n = 0 THEN {<<>>}
    ELSE LET shorter == SeqsUpTo(S, n - 1)
         IN  shorter \cup {Append(t, c) : t \in shorter, c \in S}

Lines == SeqsUpTo(Chars, MaxLineLen)

IsSpace(c) == c = " "

\* str.lower() on one character
LowerChar(c) == IF c = "B" THEN "b" ELSE c

\* line 21: the characters re.sub(r'[^a-zA-Z]', '', word) keeps
IsAsciiLetter(c) == c \in {"a", "B"}

\* lines 18-22: clean_word
clean_word(w) ==
    LET kept == SelectSeq(w, IsAsciiLetter)
    IN  [j \in 1..Len(kept) |-> LowerChar(kept[j])]

\* str.split(): the maximal runs of characters that are not white space
RECURSIVE SplitFrom(_, _, _)
SplitFrom(line, j, cur) ==
    IF j > Len(line)
    THEN IF cur = <<>> THEN <<>> ELSE <<cur>>
    ELSE IF IsSpace(line[j])
         THEN IF cur = <<>> THEN SplitFrom(line, j + 1, <<>>)
              ELSE <<cur>> \o SplitFrom(line, j + 1, <<>>)
         ELSE SplitFrom(line, j + 1, Append(cur, line[j]))

\* str.strip(): leading and trailing white space removed
RECURSIVE StripLeft(_)
StripLeft(line) ==
    IF line # <<>> /\ IsSpace(Head(line)) THEN StripLeft(Tail(line)) ELSE line

RECURSIVE StripRight(_)
StripRight(line) ==
    IF line # <<>> /\ IsSpace(line[Len(line)])
    THEN StripRight(SubSeq(line, 1, Len(line) - 1)) ELSE line

\* line 33: line.strip().split()
SplitLine(line) == SplitFrom(StripRight(StripLeft(line)), 1, <<>>)

\* lines 34-37: the words of one line, cleaned, the empty ones dropped
RECURSIVE CleanAll(_)
CleanAll(ws) ==
    IF ws = <<>> THEN <<>>
    ELSE LET cleaned_word == clean_word(Head(ws))
         IN  (IF cleaned_word # <<>> THEN <<cleaned_word>> ELSE <<>>) \o CleanAll(Tail(ws))

\* what open() may raise, and what reading a line may raise
OpenErrors == {"FileNotFoundError", "PermissionError", "IsADirectoryError"}
ReadErrors == {"UnicodeDecodeError", "OSError"}

\* the subclasses of OSError among them
OSErrors == {"FileNotFoundError", "PermissionError", "IsADirectoryError", "OSError"}

CaughtAsOSError(e) == e \in OSErrors

\* line 45: except Exception catches every one of them
CaughtAsException(e) == e \in OpenErrors \cup ReadErrors

ReadIdle ==
    /\ UNCHANGED topkVars
    /\ UNCHANGED dinoVars

\* lines 42-47: the except clauses, for an exception e raised inside the try
HandleError(e) ==
    /\ exc' = e
    /\ IF e = "FileNotFoundError"
       THEN /\ out' = Append(out, "Error: File not found")
            /\ ret' = <<>>
            /\ rpc' = "returned"
            /\ UNCHANGED propagated
       ELSE IF CaughtAsException(e)
            THEN /\ out' = Append(out, "Error reading file")
                 /\ ret' = <<>>
                 /\ rpc' = "returned"
                 /\ UNCHANGED propagated
            ELSE /\ propagated' = TRUE
                 /\ rpc' = "raised"
                 /\ UNCHANGED <<out, ret>>

\* lines 27-30: words = []; open(filename) succeeds
OpenFile ==
    /\ rpc = "start"
    /\ words' = <<>>
    /\ rpc' = "reading"
    /\ UNCHANGED <<nlines, ret, out, exc, propagated>>
    /\ ReadIdle

\* line 30: open(filename) raises
OpenFails ==
    /\ rpc = "start"
    /\ \E e \in OpenErrors : HandleError(e)
    /\ words' = <<>>
    /\ UNCHANGED nlines
    /\ ReadIdle

\* lines 31-37: one line of the file
ReadLine ==
    /\ rpc = "reading"
    /\ nlines < MaxLines
    /\ \E line \in Lines : words' = words \o CleanAll(SplitLine(line))
    /\ nlines' = nlines + 1
    /\ UNCHANGED <<rpc, ret, out, exc, propagated>>
    /\ ReadIdle

\* line 31: reading the next line raises
ReadFails ==
    /\ rpc = "reading"
    /\ \E e \in ReadErrors : HandleError(e)
    /\ UNCHANGED <<words, nlines>>
    /\ ReadIdle

\* lines 39-40: the file is exhausted
EndOfFile ==
    /\ rpc = "reading"
    /\ out' = Append(out, "Successfully read")
    /\ ret' = words
    /\ rpc' = "returned"
    /\ UNCHANGED <<words, nlines, exc, propagated>>
    /\ ReadIdle

\* --------------------------------------------- claims about the reading
LowerAlpha == {"a", "b"}

\* C7: read_words_from_file lets no exception out: when opening or reading
\* fails (also after words were collected) it prints an error message and
\* returns the empty sequence; on success every token returned is non-empty
\* and made of lower-case letters only.
C7_NoExceptionEscapes ==
    /\ ~propagated /\ rpc # "raised"
    /\ exc # "none" =>
          /\ rpc = "returned"
          /\ ret = <<>>
          /\ out \in {<<"Error: File not found">>, <<"Error reading file">>}
          /\ exc = "FileNotFoundError" <=> out = <<"Error: File not found">>
    /\ (rpc = "returned" /\ exc = "none") =>
          /\ out = <<"Successfully read">>
          /\ \A j \in 1..Len(ret) :
                /\ ret[j] # <<>>
                /\ \A c \in Range(ret[j]) : c \in LowerAlpha

\* reading failed with an error that is no OSError after two words had been
\* collected, one of them from an upper-case letter
C7_Witness ==
    /\ rpc = "returned" /\ exc = "UnicodeDecodeError"
    /\ Len(words) >= 2 /\ words[1] = <<"b">>
    /\ ret = <<>>

\* a read succeeded and returned two tokens
C7_WitnessSuccess ==
    /\ rpc = "returned" /\ exc = "none" /\ Len(ret) >= 2 /\ ret[2] = <<"a", "b">>


\* ------------------------------------------------ DinosaurSpeedCalculator
\* csv.DictReader's value for a field the row does not have (restval)
NoneVal == "<None>"

\* the header lines of the files: the plain one, one that needs
\* k.strip().upper(), one of aliases, and one without the numeric column
Headers1 ==
    { <<"NAME", "LEG_LENGTH", "DIET">>,
      <<" name", "Leg_Length", "diet ">>,
      <<"SPECIES", "LGLENGTH", "FOOD">>,
      <<"NAME", "DIET">> }

Headers2 ==
    { <<"NAME", "STRIDE_LENGTH", "STANCE">>,
      <<" name", "stride", "Posture">>,
      <<"NAME", "STANCE">> }

\* lines 77, 125: k.strip().upper() on the column names above
NormalizeKey(key) ==
    CASE key = " name" -> "NAME"
      [] key = "Leg_Length" -> "LEG_LENGTH"
      [] key = "diet " -> "DIET"
      [] key = "stride" -> "STRIDE"
      [] key = "Posture" -> "POSTURE"
      [] OTHER -> key

\* the kind of cell a column holds
NameKeys == {"NAME", "DINOSAUR", "SPECIES"}
NumberKeys == {"LEG_LENGTH", "LEG LENGTH", "LGLENGTH", "STRIDE_LENGTH", "STRIDE LENGTH", "STRIDE"}

NameCells == {"Rex", " Tri"}
NumberCells == {"2", " -1", "x", ""}
TextCells == {"Bipedal", "quadrupedal "}

CellsOf(key) ==
    IF NormalizeKey(key) \in NameKeys THEN NameCells
    ELSE IF NormalizeKey(key) \in NumberKeys THEN NumberCells
    ELSE TextCells

\* the rows a file with this header may hold: a cell for every column, the
\* last cell missing, or a cell more than the header has columns
FullRows(hdr) ==
    {r \in [1..Len(hdr) -> NameCells \cup NumberCells \cup TextCells] :
        \A j \in 1..Len(hdr) : r[j] \in CellsOf(hdr[j])}

RowsOf(hdr) ==
    FullRows(hdr)
        \cup {SubSeq(r, 1, Len(r) - 1) : r \in FullRows(hdr)}
        \cup {Append(r, "extra") : r \in FullRows(hdr)}

\* lines 77, 125: v.strip() on the cells above
StripCell(v) ==
    CASE v = " Tri" -> "Tri"
      [] v = " -1" -> "-1"
      [] v = "quadrupedal " -> "quadrupedal"
      [] OTHER -> v

\* lines 90, 138: float(s) succeeds
IsFloat(v) == v \in {"2", "-1"}

\* lines 90, 138: float(s)
FloatOf(v) == IF v = "2" THEN 2 ELSE 0 - 1

\* csv.DictReader: the dict of a row, a short row filled with None
RowDict(hdr, cells) ==
    [key \in Range(hdr) |->
        LET j == CHOOSE n \in 1..Len(hdr) : hdr[n] = key
        IN  IF j <= Len(cells) THEN cells[j] ELSE NoneVal]

\* lines 77, 125: the dict comprehension raises AttributeError on a None
\* value (a short row) and on the None key of a row with extra cells
NormalizeRaises(hdr, cells) == Len(cells) # Len(hdr)

\* lines 77, 125: normalized_row
NormalizedRow(hdr, cells) ==
    LET d == RowDict(hdr, cells)
    IN  [nk \in {NormalizeKey(key) : key \in Range(hdr)} |->
            StripCell(d[CHOOSE key \in Range(hdr) : NormalizeKey(key) = nk])]

\* lines 163-168: _find_column; "" stands for None
find_column(nrow, possible_names) ==
    LET hits == {n \in 1..Len(possible_names) : possible_names[n] \in DOMAIN nrow}
    IN  IF hits = {} THEN ""
        ELSE possible_names[CHOOSE n \in hits : \A m \in hits : n <= m]

\* dict.update, and the assignment self.dinosaurs[name] = ...
Merge(old, new) ==
    [f \in DOMAIN old \cup DOMAIN new |-> IF f \in DOMAIN new THEN new[f] ELSE old[f]]

Put(dict, key, val) ==
    [n \in DOMAIN dict \cup {key} |-> IF n = key THEN val ELSE dict[n]]

\* lines 98-108, 146-156: store or update the partial data of a dinosaur
Store(dict, name, fields) ==
    IF name \notin DOMAIN dict
    THEN Put(dict, name, Merge([name |-> name], fields))
    ELSE Put(dict, name, Merge(dict[name], fields))

NameColumns == <<"NAME", "DINOSAUR", "SPECIES">>
NumberColumns(d) ==
    IF d = 1 THEN <<"LEG_LENGTH", "LEG LENGTH", "LGLENGTH">>
    ELSE <<"STRIDE_LENGTH", "STRIDE LENGTH", "STRIDE">>
TextColumns(d) ==
    IF d = 1 THEN <<"DIET", "FOOD", "EATING">>
    ELSE <<"STANCE", "POSTURE", "POSITION">>

\* the fields a row of dataset d stores
FieldsOf(d, number, text) ==
    IF d = 1 THEN [leg_length |-> number, diet |-> text]
    ELSE [stride_length |-> number, stance |-> text]

DinoIdle ==
    /\ UNCHANGED topkVars
    /\ UNCHANGED readVars

\* lines 70-72, 118-120: open(filepath) succeeds and the header is read;
\* main loads dataset1, then dataset2
OpenDataset ==
    /\ dpc = "idle"
    /\ dataset < 2
    /\ dataset' = dataset + 1
    /\ fieldnames' \in (IF dataset = 0 THEN Headers1 ELSE Headers2)
    /\ nrows' = 0
    /\ dpc' = "rows"
    /\ UNCHANGED <<dinosaurs, row, warnings, raised>>
    /\ UNCHANGED <<ranked, speed_failed>>
    /\ DinoIdle

\* lines 110-113, 158-161: open(filepath) raises; the loader raises
OpenDatasetFails ==
    /\ dpc = "idle"
    /\ dataset < 2
    /\ dataset' = dataset + 1
    /\ raised' = TRUE
    /\ dpc' = "raised"
    /\ UNCHANGED <<fieldnames, dinosaurs, nrows, row, warnings>>
    /\ UNCHANGED <<ranked, speed_failed>>
    /\ DinoIdle

\* lines 75-108, 123-156: one iteration of the loop over the rows
ReadRow ==
    /\ dpc = "rows"
    /\ nrows < MaxRows
    /\ \E cells \in RowsOf(fieldnames) :
        /\ row' = cells
        /\ nrows' = nrows + 1
        /\ IF NormalizeRaises(fieldnames, cells)
           THEN \* AttributeError, caught at lines 112, 160 and raised again
                /\ raised' = TRUE
                /\ dpc' = "raised"
                /\ UNCHANGED <<dinosaurs, warnings>>
           ELSE LET nrow == NormalizedRow(fieldnames, cells)
                    name_key == find_column(nrow, NameColumns)
                    num_key == find_column(nrow, NumberColumns(dataset))
                    text_key == find_column(nrow, TextColumns(dataset))
                IN  IF name_key = "" \/ num_key = "" \/ text_key = ""
                    THEN \* "Warning: Could not find required columns"; continue
                         /\ warnings' = warnings + 1
                         /\ UNCHANGED <<dinosaurs, dpc, raised>>
                    ELSE IF ~IsFloat(nrow[num_key])
                         THEN \* "Warning: Invalid leg length"; continue
                              /\ warnings' = warnings + 1
                              /\ UNCHANGED <<dinosaurs, dpc, raised>>
                         ELSE /\ dinosaurs' =
                                    Store(dinosaurs, nrow[name_key],
                                          FieldsOf(dataset, FloatOf(nrow[num_key]), nrow[text_key]))
                              /\ UNCHANGED <<warnings, dpc, raised>>
    /\ UNCHANGED <<dataset, fieldnames>>
    /\ UNCHANGED <<ranked, speed_failed>>
    /\ DinoIdle

\* the reader is exhausted: the loader returns
EndOfRows ==
    /\ dpc = "rows"
    /\ dpc' = "idle"
    /\ UNCHANGED <<dataset, fieldnames, dinosaurs, nrows, row, warnings, raised>>
    /\ UNCHANGED <<ranked, speed_failed>>
    /\ DinoIdle

\* ---------------------------------------------- claims about the loaders
\* the row lacks a cell for a required column, or its header lacks one
LacksRequiredColumn(d, hdr, cells) ==
    \/ Len(cells) < Len(hdr)
    \/ \E cols \in {NameColumns, NumberColumns(d), TextColumns(d)} :
          \A key \in Range(hdr) : NormalizeKey(key) \notin Range(cols)

\* the row has a cell in the numeric column and it is no number
NumberFieldNotNumeric(d, hdr, cells) ==
    \E j \in 1..Len(hdr) :
        /\ NormalizeKey(hdr[j]) \in Range(NumberColumns(d))
        /\ j <= Len(cells)
        /\ StripCell(cells[j]) \notin {"2", "-1"}

IsRowStep == dpc = "rows" /\ nrows' = nrows + 1

\* C8: a row that lacks a required column, or whose numeric field is not
\* numeric, is skipped with a warning: self.dinosaurs is left unchanged and
\* the loader goes on with the remaining rows.
C8_BadRowSkipped ==
    [][(IsRowStep /\ Len(row') <= Len(fieldnames)
          /\ (\/ LacksRequiredColumn(dataset, fieldnames, row')
              \/ NumberFieldNotNumeric(dataset, fieldnames, row')))
        => /\ dinosaurs' = dinosaurs
           /\ warnings' = warnings + 1
           /\ dpc' = "rows"
           /\ ~raised'
      ]_vars


\* --------------------------------------- get_bipedal_dinosaurs_by_speed
\* line 178: required_fields
RequiredFields == {"name", "leg_length", "stride_length", "diet", "stance"}

\* line 180: all(field in data for field in required_fields)
IsComplete(data) == RequiredFields \subseteq DOMAIN data

\* str.lower() on the stance cells
LowerText(v) == IF v = "Bipedal" THEN "bipedal" ELSE v

\* lines 50-53: DinosaurData.is_bipedal
is_bipedal(d) == LowerText(d.stance) = "bipedal"

\* lines 41-42: DinosaurData.speed raises ValueError
SpeedRaises(d) == d.leg_length <= 0

SignedSquare(x) == IF x >= 0 THEN x * x ELSE 0 - (x * x)

\* lines 44-48: speed(a) < speed(b), for leg lengths > 0. The speed
\* ((stride / leg) - 1) * sqrt(leg * g) equals (stride - leg) * sqrt(g / leg),
\* which grows with SignedSquare(stride - leg) / leg
SpeedLess(a, b) ==
    SignedSquare(a.stride_length - a.leg_length) * b.leg_length
        < SignedSquare(b.stride_length - b.leg_length) * a.leg_length

\* the orders in which self.dinosaurs.items() may yield the names (the
\* insertion order of the dict, which depends on the rows of both files)
NameOrders(dict) ==
    {s \in [1..Cardinality(DOMAIN dict) -> DOMAIN dict] :
        \A a, b \in 1..Cardinality(DOMAIN dict) : a # b => s[a] # s[b]}

\* lines 175-196: create_dinosaur_objects, the names taken in this order
RECURSIVE create_dinosaur_objects(_, _)
create_dinosaur_objects(dict, names) ==
    IF names = <<>> THEN <<>>
    ELSE (IF IsComplete(dict[Head(names)]) THEN <<dict[Head(names)]>> ELSE <<>>)
             \o create_dinosaur_objects(dict, Tail(names))

\* lines 193-194: the warnings create_dinosaur_objects prints
IncompleteCount(dict) == Cardinality({n \in DOMAIN dict : ~IsComplete(dict[n])})

InsertUnsorted(sorted, d) == Append(sorted, d)

\* line 213: list.sort(key=speed, reverse=True) is stable: d goes after
\* every element whose speed is >= its own
RECURSIVE InsertBySpeed(_, _)
InsertBySpeed(sorted, d) ==
    IF sorted = <<>> THEN <<d>>
    ELSE IF SpeedLess(Head(sorted), d) THEN <<d>> \o sorted
         ELSE <<Head(sorted)>> \o InsertBySpeed(Tail(sorted), d)

\* line 213: bipedal_dinosaurs.sort(key=lambda d: d.speed, reverse=True)
RECURSIVE SortBySpeed(_)
SortBySpeed(list) ==
    IF list = <<>> THEN <<>>
    ELSE InsertBySpeed(SortBySpeed(SubSeq(list, 1, Len(list) - 1)), list[Len(list)])

\* lines 198-218: get_bipedal_dinosaurs_by_speed, called by main once both
\* datasets are loaded
GetBipedalBySpeed ==
    /\ dpc = "idle"
    /\ dataset = 2
    /\ \E names \in NameOrders(dinosaurs) :
          LET all_dinosaurs == create_dinosaur_objects(dinosaurs, names)
              bipedal_dinosaurs == SelectSeq(all_dinosaurs, is_bipedal)
          IN  IF bipedal_dinosaurs = <<>>
              THEN \* "Warning: No bipedal dinosaurs found in the data"
                   /\ ranked' = <<>>
                   /\ warnings' = warnings + IncompleteCount(dinosaurs) + 1
                   /\ UNCHANGED speed_failed
              ELSE IF \E j \in 1..Len(bipedal_dinosaurs) : SpeedRaises(bipedal_dinosaurs[j])
                   THEN \* the sort calls speed on every element: ValueError, caught
                        /\ ranked' = <<>>
                        /\ speed_failed' = TRUE
                        /\ warnings' = warnings + IncompleteCount(dinosaurs)
                   ELSE /\ ranked' = SortBySpeed(bipedal_dinosaurs)
                        /\ warnings' = warnings + IncompleteCount(dinosaurs)
                        /\ UNCHANGED speed_failed
    /\ dpc' = "ranked"
    /\ UNCHANGED <<dataset, fieldnames, dinosaurs, nrows, row, raised>>
    /\ DinoIdle

\* ------------------------------------- claims about the sorted dinosaurs
\* the spellings of the stance that equal 'bipedal' case-insensitively
BipedalSpellings == {"bipedal", "Bipedal", "BIPEDAL"}

\* the dinosaurs with all five fields and a bipedal stance
CompleteBipedal ==
    {n \in DOMAIN dinosaurs :
        /\ {"name", "leg_length", "stride_length", "diet", "stance"} \subseteq DOMAIN dinosaurs[n]
        /\ dinosaurs[n].stance \in BipedalSpellings}

\* speed(a) >= speed(b) for leg lengths > 0, compared without the root
SpeedAtLeast(a, b) ==
    LET da == a.stride_length - a.leg_length
        db == b.stride_length - b.leg_length
    IN  IF da >= 0 /\ db < 0 THEN TRUE
        ELSE IF da < 0 /\ db >= 0 THEN FALSE
        ELSE IF da >= 0 THEN da * da * b.leg_length >= db * db * a.leg_length
        ELSE da * da * b.leg_length <= db * db * a.leg_length

\* C11: one complete bipedal dinosaur with leg_length <= 0 makes the call
\* return the empty list, the error being caught and reported; when every
\* complete bipedal dinosaur has leg_length > 0 the call returns exactly the
\* complete bipedal dinosaurs, each once, ordered by speed descending.
C11_BipedalBySpeed ==
    dpc = "ranked" =>
        /\ ~raised
        /\ (\E n \in CompleteBipedal : dinosaurs[n].leg_length <= 0) =>
              /\ ranked = <<>>
              /\ speed_failed
        /\ (\A n \in CompleteBipedal : dinosaurs[n].leg_length > 0) =>
              /\ ~speed_failed
              /\ Len(ranked) = Cardinality(CompleteBipedal)
              /\ Range(ranked) = {dinosaurs[n] : n \in CompleteBipedal}
              /\ \A j \in 1..(Len(ranked) - 1) : SpeedAtLeast(ranked[j], ranked[j + 1])

\* the call returned nothing because one bipedal dinosaur has a leg length
\* <= 0, although another bipedal dinosaur has a valid one
C11_WitnessDropped ==
    /\ dpc = "ranked" /\ ranked = <<>> /\ speed_failed
    /\ \E n, m \in CompleteBipedal :
          dinosaurs[n].leg_length <= 0 /\ dinosaurs[m].leg_length > 0

\* the call returned two bipedal dinosaurs of different speeds
C11_WitnessSorted ==
    /\ dpc = "ranked" /\ Len(ranked) = 2
    /\ ~SpeedAtLeast(ranked[2], ranked[1])


ReadInitIdle ==
    /\ rpc = "idle"
    /\ words = <<>>
    /\ nlines = 0
    /\ ret = <<>>
    /\ out = <<>>
    /\ exc = "none"
    /\ propagated = FALSE

DinoInitIdle ==
    /\ dpc = "idle"
    /\ dataset = 0
    /\ fieldnames = <<>>
    /\ dinosaurs = <<>>
    /\ nrows = 0
    /\ row = <<>>
    /\ warnings = 0
    /\ raised = FALSE
    /\ ranked = <<>>
    /\ speed_failed = FALSE

TopKInitIdle ==
    /\ word_freq = <<>>
    /\ k = 0
    /\ seen = {}
    /\ word = 0
    /\ min_heap = <<>>
    /\ result = <<>>
    /\ pc = "idle"
    /\ calls = 0
    /\ first_result = <<>>

Init ==
    /\ word_freq \in FreqMaps
    /\ k \in KValues
    /\ seen = {}
    /\ word = 0
    /\ min_heap = <<>>
    /\ result = <<>>
    /\ pc = "start"
    /\ calls = 1
    /\ first_result = <<>>
    /\ ReadInitIdle
    /\ DinoInitIdle

Next ==
    \/ Enter
    \/ LoopStep
    \/ LoopExit
    \/ DrainStep
    \/ Return
    \/ CallAgain

Spec == Init /\ [][Next]_vars

InitRead ==
    /\ TopKInitIdle
    /\ DinoInitIdle
    /\ rpc = "start"
    /\ words = <<>>
    /\ nlines = 0
    /\ ret = <<>>
    /\ out = <<>>
    /\ exc = "none"
    /\ propagated = FALSE

NextRead ==
    \/ OpenFile
    \/ OpenFails
    \/ ReadLine
    \/ ReadFails
    \/ EndOfFile

SpecRead == InitRead /\ [][NextRead]_vars

InitDino ==
    /\ TopKInitIdle
    /\ ReadInitIdle
    /\ dpc = "idle"
    /\ dataset = 0
    /\ fieldnames = <<>>
    /\ dinosaurs = <<>>
    /\ nrows = 0
    /\ row = <<>>
    /\ warnings = 0
    /\ raised = FALSE
    /\ ranked = <<>>
    /\ speed_failed = FALSE

NextDino ==
    \/ OpenDataset
    \/ OpenDatasetFails
    \/ ReadRow
    \/ EndOfRows
    \/ GetBipedalBySpeed

SpecDino == InitDino /\ [][NextDino]_vars

====
